---------------------------- MODULE Spec2Model ----------------------------
(***************************************************************************)
(* A model of genny's parse package: generateSpecific (the line-by-line    *)
(* substitution of one template against one type set) and Generics (the    *)
(* aggregation of the specializations into one source unit).               *)
(*                                                                         *)
(* A Go string or []byte is a sequence of one-character strings, so that   *)
(* strings.Index, strings.Replace, the prefix tests and the two regular    *)
(* expressions are computed character by character as the code does.  Go   *)
(* indexes from 0 and TLA+ from 1: the variable i of the substitution loop *)
(* keeps Go's value and At(s, j) reads s[j] of the Go source.              *)
(***************************************************************************)
EXTENDS Integers, Sequences, FiniteSets, TLC

-----------------------------------------------------------------------------
(* unicode's character classes, on the ASCII range the templates use *)

Lower == <<"a","b","c","d","e","f","g","h","i","j","k","l","m","n","o","p","q","r","s","t","u","v","w","x","y","z">>

Upper == <<"A","B","C","D","E","F","G","H","I","J","K","L","M","N","O","P","Q","R","S","T","U","V","W","X","Y","Z">>

LowerSet == {Lower[k] : k \in 1..26}

UpperSet == {Upper[k] : k \in 1..26}

DigitSet == {"0","1","2","3","4","5","6","7","8","9"}

IsLetter(r) == r \in LowerSet \cup UpperSet

IsDigit(r) == r \in DigitSet

IsUpper(r) == r \in UpperSet

IsSpace(r) == r \in {" ", "\t", "\n", "\r"}

\* strings.ToUpper on a one-byte string
ToUpper(r) == IF r \in LowerSet THEN Upper[CHOOSE k \in 1..26 : Lower[k] = r] ELSE r

\* isAlphaNumeric gets whether the rune is alphanumeric or _.
isAlphaNumeric(r) == r = "_" \/ IsLetter(r) \/ IsDigit(r)

\* \w of package regexp
IsWordChar(r) == isAlphaNumeric(r)

-----------------------------------------------------------------------------
(* package strings and package bytes *)

\* s[j] with Go's index
At(s, j) == s[j + 1]

\* s[j:]
SliceFrom(s, j) == IF j >= Len(s) THEN <<>> ELSE SubSeq(s, j + 1, Len(s))

\* s[:j]
SliceTo(s, j) == IF j <= 0 THEN <<>> ELSE SubSeq(s, 1, j)

HasPrefix(s, p) == Len(s) >= Len(p) /\ SubSeq(s, 1, Len(p)) = p

HasSuffix(s, p) == Len(s) >= Len(p) /\ SubSeq(s, Len(s) - Len(p) + 1, Len(s)) = p

\* strings.Index: Go's index of the first instance of t in s, or -1
RECURSIVE IndexFrom(_, _, _)
IndexFrom(s, t, j) ==
    IF j + Len(t) > Len(s) THEN -1
    ELSE IF SubSeq(s, j + 1, j + Len(t)) = t THEN j
    ELSE IndexFrom(s, t, j + 1)

Index(s, t) == IndexFrom(s, t, 0)

Contains(s, t) == Index(s, t) >= 0

\* strings.Replace(s, old, new, 1)
Replace(s, old, new) ==
    LET j == Index(s, old)
    IN  IF j < 0 THEN s ELSE SliceTo(s, j) \o new \o SliceFrom(s, j + Len(old))

\* strings.Replace(s, old, "", -1) for a one-character old
RemoveAll(s, old) == SelectSeq(s, LAMBDA r : r # old)

RECURSIVE TrimLeft(_, _)
TrimLeft(s, cutset) ==
    IF s # <<>> /\ Head(s) \in cutset THEN TrimLeft(Tail(s), cutset) ELSE s

RECURSIVE TrimRight(_, _)
TrimRight(s, cutset) ==
    IF s # <<>> /\ s[Len(s)] \in cutset THEN TrimRight(SliceTo(s, Len(s) - 1), cutset) ELSE s

TrimSpace(s) == TrimLeft(TrimRight(s, {" ", "\t", "\n", "\r"}), {" ", "\t", "\n", "\r"})

\* the end of the run of non-space characters of s that starts at Go index j
RECURSIVE FieldEnd(_, _)
FieldEnd(s, j) == IF j >= Len(s) \/ IsSpace(At(s, j)) THEN j ELSE FieldEnd(s, j + 1)

\* strings.Fields: the maximal runs of non-space characters, in order
RECURSIVE FieldsFrom(_, _)
FieldsFrom(s, j) ==
    IF j >= Len(s) THEN <<>>
    ELSE IF IsSpace(At(s, j)) THEN FieldsFrom(s, j + 1)
    ELSE <<SubSeq(s, j + 1, FieldEnd(s, j))>> \o FieldsFrom(s, FieldEnd(s, j))

Fields(s) == FieldsFrom(s, 0)

\* strings.Join(parts, "")
RECURSIVE Join(_)
Join(parts) == IF parts = <<>> THEN <<>> ELSE Head(parts) \o Join(Tail(parts))

\* strings.Split(s, " ")
RECURSIVE Split(_)
Split(s) ==
    LET j == Index(s, <<" ">>)
    IN  IF j < 0 THEN <<s>> ELSE <<SliceTo(s, j)>> \o Split(SliceFrom(s, j + 1))

\* strings.Join(parts, " ")
RECURSIVE JoinSpace(_)
JoinSpace(parts) ==
    IF Len(parts) <= 1 THEN Join(parts) ELSE Head(parts) \o <<" ">> \o JoinSpace(Tail(parts))

\* bufio.Scanner with ScanLines over b: the lines without their end-of-line
\* marker (a trailing \r dropped), a last unterminated line kept when non-empty
DropCR(x) == IF x # <<>> /\ x[Len(x)] = "\r" THEN SliceTo(x, Len(x) - 1) ELSE x

\* where the "\n" characters of b stand
Newlines(b) == {k \in 1..Len(b) : b[k] = "\n"}

\* the lines of b from position start on, ends the "\n" not yet passed
RECURSIVE LinesFrom(_, _, _)
LinesFrom(b, start, ends) ==
    IF start > Len(b) THEN <<>>
    ELSE IF ends = {} THEN <<DropCR(SubSeq(b, start, Len(b)))>>
    ELSE LET e == CHOOSE k \in ends : \A m \in ends : k <= m
         IN  <<DropCR(SubSeq(b, start, e - 1))>> \o LinesFrom(b, e + 1, ends \ {e})

ScanLines(b) == LinesFrom(b, 1, Newlines(b))

-----------------------------------------------------------------------------
(* the package's variables *)

header == <<"\n","\n","/","/"," ","T","h","i","s"," ","f","i","l","e"," ","w","a","s"," ","a","u","t","o","m","a","t","i","c","a","l","l","y"," ","g","e","n","e","r","a","t","e","d"," ","b","y"," ","g","e","n","n","y",".","\n","/","/"," ","A","n","y"," ","c","h","a","n","g","e","s"," ","w","i","l","l"," ","b","e"," ","l","o","s","t"," ","i","f"," ","t","h","i","s"," ","f","i","l","e"," ","i","s"," ","r","e","g","e","n","e","r","a","t","e","d",".","\n","/","/"," ","s","e","e"," ","h","t","t","p","s",":","/","/","g","i","t","h","u","b",".","c","o","m","/","m","a","u","r","i","c","e","l","a","m","/","g","e","n","n","y","\n","\n">>

packageKeyword == <<"p","a","c","k","a","g","e">>

importKeyword == <<"i","m","p","o","r","t">>

openBrace == <<"(">>

closeBrace == <<")">>

space == <<" ">>

genericPackage == <<"g","e","n","e","r","i","c">>

genericType == <<"g","e","n","e","r","i","c",".","T","y","p","e">>

genericNumber == <<"g","e","n","e","r","i","c",".","N","u","m","b","e","r">>

linefeed == {"\r", "\n"}

unwantedLinePrefixes == <<<<"/","/","g","o",":","g","e","n","e","r","a","t","e"," ","g","e","n","n","y"," ">>, <<"/","/","g","o",":","g","e","n","e","r","a","t","e"," ","$","G","O","P","A","T","H","/","b","i","n","/","g","e","n","n","y"," ">>>>

\* fmt.Sprintln(x) of one string
Sprintln(s) == s \o <<"\n">>

line(s) == Sprintln(TrimRight(s, linefeed))

-----------------------------------------------------------------------------
(* wordify, typify and the per-word substitution of generateSpecific *)

\* wordify with a fault put in: the exported flag is not looked at
wordifyAsWritten(s, exported) ==
    IF Index(s, <<":">>) >= 0 THEN SliceTo(s, Index(s, <<":">>))
    ELSE RemoveAll(TrimLeft(TrimRight(s, {"{", "}"}), {"*", "&"}), ".")

\* wordify turns a type into a nice word for function and type names etc.
\* If s matches format `<Title>:<Type>` then <Title> is returned
wordify(s, exported) ==
    LET sepIdx == Index(s, <<":">>)
        s1 == TrimRight(s, {"{", "}"})
        s2 == TrimLeft(s1, {"*", "&"})
        s3 == RemoveAll(s2, ".")
    IN  IF sepIdx >= 0 THEN SliceTo(s, sepIdx)
        ELSE IF ~exported THEN s3
        ELSE <<ToUpper(At(s3, 0))>> \o SliceFrom(s3, 1)

\* typify gets type name from string: the part right of ":" when there is one
typify(s) ==
    LET sepIdx == Index(s, <<":">>)
    IN  IF sepIdx >= 0 THEN SliceFrom(s, sepIdx + 1) ELSE s

\* "if this isn't an exact match": the test of the loop, on the loop's own i
IsPartial(word, i, t) ==
    \/ i > 0 /\ isAlphaNumeric(At(word, i - 1))
    \/ i < Len(word) - Len(t) /\ isAlphaNumeric(At(word, i + Len(t)))

\* the exported flag handed to wordify
WordExported(word) == IsUpper(At(TrimLeft(word, {"*", "&"}), 0))

\* one turn of the loop that found t (i > -1): the word after strings.Replace
ReplaceOnce(word, i, t, specificType) ==
    IF IsPartial(word, i, t)
    THEN Replace(word, t, wordify(specificType, WordExported(word)))
    ELSE Replace(word, t, typify(specificType))

\* FindNext with a fault put in: the search starts one character late
FindNextLate(word, i, t) ==
    IF Index(SliceFrom(word, i + 1), t) < 0 THEN -1 ELSE Index(SliceFrom(word, i + 1), t) + 1

\* i = strings.Index(word[i:], t)
FindNext(word, i, t) == Index(SliceFrom(word, i), t)

\* The longest word the model follows through the loop; longer words stop it.
MaxWordLen == 32

\* the loop "for { i = strings.Index(word[i:], t) ... }" run to its break
RECURSIVE SubstWord(_, _, _, _)
SubstWord(word, i, t, specificType) ==
    LET j == FindNext(word, i, t)
    IN  IF j > -1 /\ Len(word) <= MaxWordLen
        THEN SubstWord(ReplaceOnce(word, j, t, specificType), j, t, specificType)
        ELSE word

\* the body of "for t, specificType := range typeSet" for one t
SubstLine(l, t, specificType) ==
    IF Contains(l, t)
    THEN LET words == Fields(l)
         IN  Join([k \in 1..Len(words) |-> SubstWord(words[k], 0, t, specificType) \o space])
    ELSE l

\* the range loop over typeSet, its keys met in the given order
RECURSIVE SubstAll(_, _, _)
SubstAll(l, typeSet, order) ==
    IF order = <<>> THEN l
    ELSE SubstAll(SubstLine(l, Head(order), typeSet[Head(order)]), typeSet, Tail(order))

\* the orders in which Go may range over the map
Orders(typeSet) ==
    LET keys == DOMAIN typeSet
        n == Cardinality(keys)
    IN  {o \in [1..n -> keys] : \A a, b \in 1..n : a # b => o[a] # o[b]}

-----------------------------------------------------------------------------
(* the two regular expressions of generateSpecific *)

\* the end of the run of white space (\s) that starts at Go index j
RECURSIVE SkipSpace(_, _)
SkipSpace(s, j) == IF j >= Len(s) \/ ~IsSpace(At(s, j)) THEN j ELSE SkipSpace(s, j + 1)

\* the end of the run of word characters (\w) that starts at Go index j
RECURSIVE SkipWord(_, _)
SkipWord(s, j) == IF j >= Len(s) \/ ~IsWordChar(At(s, j)) THEN j ELSE SkipWord(s, j + 1)

\* reInterfaceBegin: ^\s*type\s+\w+\s+interface\s*\{
reInterfaceBegin(l) ==
    LET a == SkipSpace(l, 0)
        b == SkipSpace(l, a + 4)
        c == SkipWord(l, b)
        d == SkipSpace(l, c)
        e == SkipSpace(l, d + 9)
    IN  /\ HasPrefix(SliceFrom(l, a), <<"t","y","p","e">>)
        /\ b > a + 4
        /\ c > b
        /\ d > c
        /\ HasPrefix(SliceFrom(l, d), <<"i","n","t","e","r","f","a","c","e">>)
        /\ HasPrefix(SliceFrom(l, e), <<"{">>)

\* reInterfaceEnd: ^\s*\}
reInterfaceEnd(l) == HasPrefix(SliceFrom(l, SkipSpace(l, 0)), <<"}">>)

-----------------------------------------------------------------------------
(* the check that every generic type is represented in the type set *)

\* parser.ParseFile and the walk over file.Decls: the names of the top-level
\* type specs whose type is a selector into package generic, as declared
GenericTypeSpecs(template) ==
    LET isSpec(l) ==
            /\ HasPrefix(l, <<"t","y","p","e">>)
            /\ Len(Fields(l)) = 3
            /\ Fields(l)[1] = <<"t","y","p","e">>
            /\ HasPrefix(Fields(l)[3], genericPackage \o <<".">>)
        decls == SelectSeq(template, isSpec)
    IN  [k \in 1..Len(decls) |-> Fields(decls[k])[2]]

NoName == <<>>

\* MissingType with a fault put in: the last unbound declared type is reported
MissingTypeLast(template, typeSet) ==
    LET names == GenericTypeSpecs(template)
        unbound == {k \in 1..Len(names) : names[k] \notin DOMAIN typeSet}
    IN  IF unbound = {} THEN NoName
        ELSE names[CHOOSE k \in unbound : \A m \in unbound : k >= m]

\* the first declared generic type that typeSet does not map, or NoName
MissingType(template, typeSet) ==
    LET names == GenericTypeSpecs(template)
        unbound == {k \in 1..Len(names) : names[k] \notin DOMAIN typeSet}
    IN  IF unbound = {} THEN NoName
        ELSE names[CHOOSE k \in unbound : \A m \in unbound : k <= m]

-----------------------------------------------------------------------------
(* Generics: the import set, the package rename and the added imports *)

\* stringArraySet.append: the entry trimmed, added when not yet in the set
SetAppend(set, s) ==
    LET entry == TrimSpace(s)
    IN  IF \E k \in 1..Len(set) : set[k] = entry THEN set ELSE Append(set, entry)

\* SingleImport with a fault put in: the keyword is left on the entry
SingleImportWithKeyword(s) == TrimSpace(line(s))

\* the import path of a single-line import: the line trimmed, "import" cut
\* off (importLine[6:]) and the rest trimmed again
SingleImport(s) == TrimSpace(SliceFrom(TrimSpace(line(s)), 6))

LocalUnwantedLinePrefixes(tag) ==
    IF tag # <<>> THEN Append(unwantedLinePrefixes, <<"/","/"," ","+","b","u","i","l","d"," ">> \o tag)
    ELSE unwantedLinePrefixes

\* the lines written by changePackage's loop, done the flag it carries
RECURSIVE ChangePackageLines(_, _, _)
ChangePackageLines(lines, pkgName, done) ==
    IF lines = <<>> THEN <<>>
    ELSE LET s == Head(lines)
             parts == Split(s)
         IN  IF ~done /\ HasPrefix(s, packageKeyword)
             THEN Sprintln(JoinSpace([parts EXCEPT ![2] = pkgName]))
                      \o ChangePackageLines(Tail(lines), pkgName, TRUE)
             ELSE Sprintln(s) \o ChangePackageLines(Tail(lines), pkgName, done)

changePackage(r, pkgName) == ChangePackageLines(ScanLines(r), pkgName, FALSE)

\* the lines written by addImports' loop
RECURSIVE AddImportsLines(_, _, _)
AddImportsLines(lines, importPaths, done) ==
    IF lines = <<>> THEN <<>>
    ELSE LET s == Head(lines)
             imps == Join([k \in 1..Len(importPaths) |->
                              <<"i","m","p","o","r","t"," ","\"">> \o importPaths[k] \o <<"\"","\n">>])
         IN  IF ~done /\ HasPrefix(s, packageKeyword)
             THEN Sprintln(s) \o imps \o AddImportsLines(Tail(lines), importPaths, TRUE)
             ELSE Sprintln(s) \o AddImportsLines(Tail(lines), importPaths, done)

addImports(r, importPaths) == AddImportsLines(ScanLines(r), importPaths, FALSE)

-----------------------------------------------------------------------------
(* the inputs the model draws *)

\* how many declarations follow the imports of a template
MaxUnits == 2

\* how many type sets one call of Generics is given
MaxSets == 2

PackageClause == <<"p","a","c","k","a","g","e"," ","p">>

\* the import declarations of a template: none, a block (with a blank line in
\* it), and a single-line import next to a block that names the same path
ImportSections ==
    { <<>>,
      <<<<"i","m","p","o","r","t"," ","(">>, <<"\t","\"","a","\"">>, <<>>, <<"\t","\"","b","\"">>, <<")">>>>,
      <<<<"i","m","p","o","r","t"," ","\"","b","\"">>, <<"i","m","p","o","r","t"," ","(">>, <<"\t","\"","a","\"">>, <<"\t","\"","b","\"">>, <<")">>>> }

\* the declarations of a template: the two placeholder declarations, a comment
\* line, an interface without and with a reference to generic.Type, the
\* one-line generic interface, and a declaration that uses a placeholder
Units ==
    { <<<<"t","y","p","e"," ","T"," ","g","e","n","e","r","i","c",".","T","y","p","e">>>>,
      <<<<"t","y","p","e"," ","N"," ","g","e","n","e","r","i","c",".","N","u","m","b","e","r">>>>,
      <<<<"/","/"," ","c">>>>,
      <<<<"t","y","p","e"," ","I"," ","i","n","t","e","r","f","a","c","e"," ","{">>, <<"\t","F","(",")">>, <<"}">>>>,
      <<<<"t","y","p","e"," ","G"," ","i","n","t","e","r","f","a","c","e"," ","{">>, <<"\t","P","(","g","e","n","e","r","i","c",".","T","y","p","e",")">>, <<"}">>>>,
      <<<<"t","y","p","e"," ","H"," ","i","n","t","e","r","f","a","c","e"," ","{"," ","P","(","g","e","n","e","r","i","c",".","T","y","p","e",")"," ","}">>>>,
      <<<<"v","a","r"," ","x"," ","T">>>> }

Bodies == UNION {[1..n -> Units] : n \in 0..MaxUnits}

Templates == {<<PackageClause>> \o imp \o Join(body) : imp \in ImportSections, body \in Bodies}

\* the type sets of a request: both placeholders bound, only T bound, none bound
TypeSetChoices ==
    { (<<"T">> :> <<"i","n","t">>) @@ (<<"N">> :> <<"f","6","4">>),
      (<<"T">> :> <<"p","e","t",".","D","o","g">>),
      <<>> }

Requests == UNION {[1..n -> TypeSetChoices] : n \in 1..MaxSets}

\* the optional arguments of Generics
PkgNames == {<<>>, <<"q">>}

ImportPathLists == {<<>>, <<<<"c">>>>}

\* the lines and type sets the substitution loop is run on by itself
SubstLines ==
    { <<"f","u","n","c"," ","f","(","a"," ","T","y","p","e","S","c","r","i","p","t",","," ","b"," ","T","y","p","e",")"," ","{">>,
      <<"v","a","r"," ","y"," ","T","y","p","e">>,
      <<"v","a","r"," ","m"," ","m","a","p","[","T","y","p","e","]","T","y","p","e">>,
      <<"v","a","r"," ","p"," ","*","T","y","p","e","L","i","s","t">>,
      <<"v","a","r"," ","k"," ","K","e","y","T","y","p","e">>,
      <<"f","u","n","c"," ","N","u","m","b","e","r","T","y","p","e","M","a","x","(","a",","," ","b"," ","N","u","m","b","e","r","T","y","p","e",")"," ","N","u","m","b","e","r","T","y","p","e"," ","{">>,
      <<"f","u","n","c"," ","s","e","c","r","e","t","I","n","s","p","e","c","t","(","s"," ","s","e","c","r","e","t",")"," ","s","t","r","i","n","g"," ","{">>,
      <<"t","y","p","e"," ","P","a","i","r","F","i","r","s","t","T","y","p","e","S","e","c","o","n","d","T","y","p","e"," ","s","t","r","u","c","t"," ","{">> }

SubstTypeSets ==
    { (<<"T","y","p","e">> :> <<"F","o","o">>),
      (<<"T","y","p","e">> :> <<"p","e","t",".","D","o","g">>),
      (<<"T","y","p","e">> :> <<"D","o","g",":","p","e","t",".","D","o","g">>),
      (<<"T","y","p","e">> :> <<"M","y","T","y","p","e">>),
      (<<"N","u","m","b","e","r","T","y","p","e">> :> <<"i","n","t">>),
      (<<"N","u","m","b","e","r","T","y","p","e">> :> <<"n","u","m",":","b","i","g",".","I","n","t">>),
      (<<"s","e","c","r","e","t">> :> <<"P","e","r","s","o","n",":","p","e","r","s","o","n",".","P","e","r","s","o","n">>),
      (<<"s","e","c","r","e","t">> :> <<"*","m","y","T","y","p","e">>),
      (<<"s","e","c","r","e","t">> :> <<"F","o","o">>),
      (<<"K","e","y","T","y","p","e">> :> <<"s","t","r","i","n","g">>) @@ (<<"T","y","p","e">> :> <<"i","n","t">>),
      (<<"F","i","r","s","t","T","y","p","e">> :> <<"P","e","r","s","o","n",":","p","e","r","s","o","n",".","P","e","r","s","o","n">>) @@ (<<"S","e","c","o","n","d","T","y","p","e">> :> <<"D","o","g",":","p","e","t",".","D","o","g">>) }

-----------------------------------------------------------------------------
VARIABLES
    \* the arguments of Generics
    template, typeSets, stripTag,
    \* Generics: where it is, the type set at hand, and its local variables
    gPc, gIdx, totalOutput, packageLine, packageFound,
    insideImportBlock, collectedImports, outputLines, cleanOutput,
    \* what Generics returns
    output, err,
    \* generateSpecific: the scanner's position and the local variables
    lineNo, buf, comment, interfaceLines, interfaceContainsType,
    \* the substitution of one line: where it is, its arguments (the line and
    \* the type set), the keys the range loop has yet to meet, and the locals
    sPc, sLine, typeSet, keysLeft, t, l, words, wi, word, i, newLine,
    \* the branch the last turn of the word loop took and the turns so far
    branch, nRepl

gArgs == <<template, typeSets, stripTag>>

gVars == <<gPc, gIdx, totalOutput, packageLine, packageFound,
           insideImportBlock, collectedImports, outputLines, cleanOutput, output, err>>

fVars == <<lineNo, buf, comment, interfaceLines, interfaceContainsType>>

sVars == <<sPc, sLine, typeSet, keysLeft, t, l, words, wi, word, i, newLine, branch, nRepl>>

vars == <<gArgs, gVars, fVars, sVars>>

NoErr == [kind |-> "nil"]

errMissingSpecificType(name) == [kind |-> "errMissingSpecificType", GenericType |-> name]

\* Generics before its loop over typeSets
GenericsIdle ==
    /\ gIdx = 1
    /\ totalOutput = <<>>
    /\ packageLine = <<>>
    /\ packageFound = FALSE
    /\ insideImportBlock = FALSE
    /\ collectedImports = <<>>
    /\ outputLines = <<>>
    /\ cleanOutput = <<>>
    /\ output = <<>>
    /\ err = NoErr
    /\ lineNo = 1
    /\ buf = <<>>
    /\ comment = <<>>
    /\ interfaceLines = <<>>
    /\ interfaceContainsType = FALSE

\* the substitution loop before its first key
SubstIdle ==
    /\ t = <<>>
    /\ words = <<>>
    /\ wi = 0
    /\ word = <<>>
    /\ i = 0
    /\ newLine = <<>>
    /\ branch = "none"
    /\ nRepl = 0

Init ==
    /\ template \in Templates
    /\ typeSets \in Requests
    /\ stripTag = <<>>
    /\ gPc = "call"
    /\ GenericsIdle
    /\ sPc = "idle"
    /\ sLine = <<>>
    /\ typeSet = <<>>
    /\ keysLeft = {}
    /\ l = <<>>
    /\ SubstIdle

-----------------------------------------------------------------------------
(* generateSpecific *)

\* the call from Generics' loop: the parse and the check of the type set, then
\* either the error return (which Generics passes on) or the scan from the top
GenerateSpecificBegin ==
    /\ gPc = "call"
    /\ LET missing == MissingType(template, typeSets[gIdx])
       IN  IF missing # NoName
           THEN /\ gPc' = "error"
                /\ output' = <<>>
                /\ err' = errMissingSpecificType(missing)
                /\ UNCHANGED fVars
           ELSE /\ gPc' = "scan"
                /\ lineNo' = 1
                /\ buf' = <<>>
                /\ comment' = <<>>
                /\ interfaceLines' = <<>>
                /\ interfaceContainsType' = FALSE
                /\ UNCHANGED <<output, err>>
    /\ UNCHANGED <<gIdx, totalOutput, packageLine, packageFound,
                   insideImportBlock, collectedImports, outputLines, cleanOutput>>
    /\ UNCHANGED <<gArgs, sVars>>

\* one turn of "for scanner.Scan()", the map ranged over in any order
ScanLine ==
    /\ gPc = "scan"
    /\ lineNo <= Len(template)
    /\ lineNo' = lineNo + 1
    /\ LET l0 == template[lineNo]
           il == IF reInterfaceBegin(l0) THEN <<l0>> ELSE interfaceLines
       IN  IF Len(il) > 0 /\ reInterfaceEnd(l0)
           THEN /\ buf' = IF ~interfaceContainsType THEN buf \o Join(Append(il, l0)) ELSE buf
                /\ interfaceLines' = <<>>
                /\ interfaceContainsType' = FALSE
                /\ UNCHANGED comment
           ELSE IF Contains(l0, genericType) \/ Contains(l0, genericNumber)
           THEN /\ comment' = <<>>
                /\ interfaceContainsType' = (Len(il) > 0 \/ interfaceContainsType)
                /\ interfaceLines' = il
                /\ UNCHANGED buf
           ELSE \E order \in Orders(typeSets[gIdx]) :
                    LET l1 == SubstAll(l0, typeSets[gIdx], order)
                        held == IF comment # <<>> THEN buf \o line(comment) ELSE buf
                    IN  /\ interfaceContainsType' = interfaceContainsType
                        /\ IF HasPrefix(l1, <<"/","/">>)
                           THEN /\ comment' = l1
                                /\ buf' = held
                                /\ interfaceLines' = il
                           ELSE /\ comment' = <<>>
                                /\ IF Len(il) > 0
                                   THEN /\ interfaceLines' = Append(il, l1)
                                        /\ buf' = held
                                   ELSE /\ interfaceLines' = il
                                        /\ buf' = held \o line(l1)
    /\ UNCHANGED <<gArgs, gVars, sVars>>

\* "return buf.Bytes(), nil" and, in Generics, the append to totalOutput; after
\* the last type set the clean-up is next
GenerateSpecificReturn ==
    /\ gPc = "scan"
    /\ lineNo > Len(template)
    /\ totalOutput' = totalOutput \o buf
    /\ IF gIdx < Len(typeSets)
       THEN gIdx' = gIdx + 1 /\ gPc' = "call"
       ELSE gPc' = "clean" /\ UNCHANGED gIdx
    /\ UNCHANGED <<packageLine, packageFound, insideImportBlock, collectedImports,
                   outputLines, cleanOutput, output, err>>
    /\ UNCHANGED <<gArgs, fVars, sVars>>

-----------------------------------------------------------------------------
(* Generics, after its loop over the type sets *)

\* the locals of the clean-up before its first line
CleanStart ==
    [packageLine |-> <<>>, packageFound |-> FALSE, insideImportBlock |-> FALSE,
     collectedImports |-> <<>>, outputLines |-> <<>>]

\* one turn of "clean up the code line by line": the locals c after line s
CleanLine(c, s, unwanted) ==
    IF c.insideImportBlock
    THEN (IF HasSuffix(s, closeBrace)
          THEN [c EXCEPT !.insideImportBlock = FALSE]
          ELSE [c EXCEPT !.collectedImports = SetAppend(@, line(s))])
    ELSE IF HasPrefix(s, packageKeyword)
    THEN (IF c.packageFound
          THEN c
          ELSE [c EXCEPT !.packageFound = TRUE, !.packageLine = line(s)])
    ELSE IF HasPrefix(s, importKeyword)
    THEN (IF HasSuffix(s, openBrace)
          THEN [c EXCEPT !.insideImportBlock = TRUE]
          ELSE [c EXCEPT !.collectedImports = SetAppend(@, SingleImport(s))])
    ELSE IF \E k \in 1..Len(unwanted) : HasPrefix(s, unwanted[k])
    THEN c
    ELSE [c EXCEPT !.outputLines = Append(@, line(s))]

\* the loop over the scanner's lines
RECURSIVE CleanLines(_, _, _)
CleanLines(c, lines, unwanted) ==
    IF lines = <<>> THEN c
    ELSE CleanLines(CleanLine(c, Head(lines), unwanted), Tail(lines), unwanted)

\* "clean up the code line by line", from the first line of totalOutput to
\* the last
CleanUp ==
    /\ gPc = "clean"
    /\ gPc' = "assemble"
    /\ LET c == CleanLines(CleanStart, ScanLines(totalOutput),
                           LocalUnwantedLinePrefixes(stripTag))
       IN  /\ packageLine' = c.packageLine
           /\ packageFound' = c.packageFound
           /\ insideImportBlock' = c.insideImportBlock
           /\ collectedImports' = c.collectedImports
           /\ outputLines' = c.outputLines
    /\ UNCHANGED <<gIdx, totalOutput, cleanOutput, output, err>>
    /\ UNCHANGED <<gArgs, fVars, sVars>>

\* the header, the package line, the one import block and the body joined
CleanOutput(pkgLine, imports, lines) ==
    Join(<<header, pkgLine, Sprintln(<<"i","m","p","o","r","t"," ","(">>)>>
         \o [k \in 1..Len(imports) |-> Sprintln(imports[k])]
         \o <<Sprintln(<<")">>)>>
         \o lines)

\* "change package name" and the added imports, each when asked for
PostProcess(clean, pkgName, importPaths) ==
    IF pkgName # <<>>
    THEN (IF Len(importPaths) > 0
          THEN addImports(changePackage(clean, pkgName), importPaths)
          ELSE changePackage(clean, pkgName))
    ELSE (IF Len(importPaths) > 0 THEN addImports(clean, importPaths) ELSE clean)

\* the assembly of cleanOutput, the package rename and the added imports, for
\* any pkgName and importPaths (read here for the first time); the result is
\* what Generics hands to imports.Process
Assemble ==
    /\ gPc = "assemble"
    /\ gPc' = "done"
    /\ cleanOutput' = CleanOutput(packageLine, collectedImports, outputLines)
    /\ \E pkgName \in PkgNames, importPaths \in ImportPathLists :
           output' = PostProcess(CleanOutput(packageLine, collectedImports, outputLines),
                                 pkgName, importPaths)
    /\ UNCHANGED <<gIdx, totalOutput, packageLine, packageFound,
                   insideImportBlock, collectedImports, outputLines, err>>
    /\ UNCHANGED <<gArgs, fVars, sVars>>

Next ==
    \/ GenerateSpecificBegin
    \/ ScanLine
    \/ GenerateSpecificReturn
    \/ CleanUp
    \/ Assemble

Spec == Init /\ [][Next]_vars

-----------------------------------------------------------------------------
(* the substitution of one line, turn by turn: generateSpecific's           *)
(* "for t, specificType := range typeSet" with its loops over the words     *)

InitSubst ==
    /\ template = <<>>
    /\ typeSets = <<>>
    /\ stripTag = <<>>
    /\ gPc = "idle"
    /\ GenericsIdle
    /\ sPc = "range"
    /\ sLine \in SubstLines
    /\ typeSet \in SubstTypeSets
    /\ keysLeft = DOMAIN typeSet
    /\ l = sLine
    /\ SubstIdle

\* the range loop meets a key, any of those it has not met yet; a line that
\* contains it is split into words and the first word enters the word loop
RangeNext ==
    /\ sPc = "range"
    /\ \E key \in keysLeft :
           /\ t' = key
           /\ keysLeft' = keysLeft \ {key}
           /\ IF Contains(l, key) /\ Fields(l) # <<>>
              THEN /\ sPc' = "word"
                   /\ words' = Fields(l)
                   /\ wi' = 1
                   /\ word' = Fields(l)[1]
                   /\ UNCHANGED l
              ELSE /\ l' = IF Contains(l, key) THEN <<>> ELSE l
                   /\ UNCHANGED <<sPc, words, wi, word>>
    /\ i' = 0
    /\ newLine' = <<>>
    /\ branch' = "none"
    /\ nRepl' = 0
    /\ UNCHANGED <<sLine, typeSet>>
    /\ UNCHANGED <<gArgs, gVars, fVars>>

\* a turn of the word loop that finds t: the word is rewritten
LoopReplace ==
    /\ sPc = "word"
    /\ FindNext(word, i, t) > -1
    /\ Len(word) <= MaxWordLen
    /\ i' = FindNext(word, i, t)
    /\ word' = ReplaceOnce(word, FindNext(word, i, t), t, typeSet[t])
    /\ branch' = IF IsPartial(word, FindNext(word, i, t), t) THEN "partial" ELSE "exact"
    /\ nRepl' = nRepl + 1
    /\ UNCHANGED <<sPc, sLine, typeSet, keysLeft, t, l, words, wi, newLine>>
    /\ UNCHANGED <<gArgs, gVars, fVars>>

\* the turn that does not find t: the word joins newLine and the loop breaks;
\* the next word starts with i := 0, and after the last word l = newLine
LoopBreak ==
    /\ sPc = "word"
    /\ FindNext(word, i, t) = -1
    /\ i' = 0
    /\ newLine' = newLine \o word \o space
    /\ IF wi < Len(words)
       THEN /\ wi' = wi + 1
            /\ word' = words[wi + 1]
            /\ UNCHANGED <<sPc, l>>
       ELSE /\ l' = newLine'
            /\ sPc' = "range"
            /\ UNCHANGED <<wi, word>>
    /\ branch' = "none"
    /\ nRepl' = 0
    /\ UNCHANGED <<sLine, typeSet, keysLeft, t, words>>
    /\ UNCHANGED <<gArgs, gVars, fVars>>

\* the range loop has met every key
RangeDone ==
    /\ sPc = "range"
    /\ keysLeft = {}
    /\ sPc' = "done"
    /\ UNCHANGED <<sLine, typeSet, keysLeft, t, l, words, wi, word, i, newLine, branch, nRepl>>
    /\ UNCHANGED <<gArgs, gVars, fVars>>

NextSubst ==
    \/ RangeNext
    \/ LoopReplace
    \/ LoopBreak
    \/ RangeDone

SpecSubst == InitSubst /\ [][NextSubst]_vars

-----------------------------------------------------------------------------
(* What the properties below are stated with. None of it is taken from the
   substitution loop: occurrences are found by position, neighbours are read
   off the word, and the text a turn put in is read off the two words. *)

\* the Go indices at which sub occurs in w
Occurrences(w, sub) ==
    {p \in 0..(Len(w) - Len(sub)) : SubSeq(w, p + 1, p + Len(sub)) = sub}

\* w with every occurrence of old replaced by new, left to right
RECURSIVE ReplaceEvery(_, _, _)
ReplaceEvery(w, old, new) ==
    IF Occurrences(w, old) = {} THEN w
    ELSE LET p == CHOOSE q \in Occurrences(w, old) : \A r \in Occurrences(w, old) : q <= r
         IN  SubSeq(w, 1, p) \o new
                 \o ReplaceEvery(SubSeq(w, p + Len(old) + 1, Len(w)), old, new)

\* the occurrence of sub at p has a letter, a digit or "_" right before or after
HasWordNeighbour(w, p, sub) ==
    \/ p > 0 /\ IsWordChar(w[p])
    \/ p + Len(sub) < Len(w) /\ IsWordChar(w[p + Len(sub) + 1])

\* the text that stands in after where the first t stood in before
Inserted(before, after, tt) ==
    LET p == CHOOSE q \in Occurrences(before, tt) : \A r \in Occurrences(before, tt) : q <= r
    IN  SubSeq(after, p + 1, p + Len(tt) + Len(after) - Len(before))

\* a turn of the word loop that rewrites the word
ReplaceStep == sPc = "word" /\ nRepl' = nRepl + 1

\* the words of the line before, each followed by a space, put together
Rewritten(f(_)) ==
    LET ws == Fields(sLine)
    IN  Join([k \in 1..Len(ws) |-> f(ws[k]) \o space])

TypeFoo == (<<"T","y","p","e">> :> <<"F","o","o">>)

FooEverywhere(w) == ReplaceEvery(w, <<"T","y","p","e">>, <<"F","o","o">>)

\* the spec as a word, before any change of case: the label of Label:Type,
\* else the spec without trailing "{" "}", leading "*" "&", and "."
IsLabelled(specificType) == Occurrences(specificType, <<":">>) # {}

RECURSIVE StripFront(_)
StripFront(x) ==
    IF x # <<>> /\ Head(x) \in {"*", "&"} THEN StripFront(Tail(x)) ELSE x

RECURSIVE StripBack(_)
StripBack(x) ==
    IF x # <<>> /\ x[Len(x)] \in {"{", "}"} THEN StripBack(SubSeq(x, 1, Len(x) - 1)) ELSE x

WordForm(specificType) ==
    IF IsLabelled(specificType)
    THEN LET c == CHOOSE q \in Occurrences(specificType, <<":">>) :
                      \A r \in Occurrences(specificType, <<":">>) : q <= r
         IN  SubSeq(specificType, 1, c)
    ELSE SelectSeq(StripFront(StripBack(specificType)), LAMBDA r : r # ".")

\* the same text, the case of the first letter left aside
SameWord(a, b) ==
    /\ Len(a) = Len(b)
    /\ a # <<>> => ToUpper(a[1]) = ToUpper(b[1])
    /\ SubSeq(a, 2, Len(a)) = SubSeq(b, 2, Len(b))

\* the identifier starts with an upper-case letter (a pointer's "*" or "&"
\* in front of it left aside)
StartsUpper(w) == StripFront(w) # <<>> /\ Head(StripFront(w)) \in UpperSet

-----------------------------------------------------------------------------
(* the substitution of one line: generateSpecific, lines 142-175 *)

\* C4 as first stated: with Type bound to Foo, a word holding the identifier
\* TypeScript comes out unchanged, and a word in which Type stands alone (no
\* letter, digit or "_" next to it) comes out with Type replaced by Foo.
WordBoundaryC4 ==
    (sPc = "done" /\ typeSet = TypeFoo) =>
        /\ Len(Fields(l)) = Len(Fields(sLine))
        /\ \A k \in 1..Len(Fields(sLine)) :
               LET w == Fields(sLine)[k]
               IN  /\ Occurrences(w, <<"T","y","p","e","S","c","r","i","p","t">>) # {} => Fields(l)[k] = w
                   /\ (\A p \in Occurrences(w, <<"T","y","p","e">>) : ~HasWordNeighbour(w, p, <<"T","y","p","e">>))
                          => Fields(l)[k] = FooEverywhere(w)

\* C4 as amended: with Type bound to Foo, every occurrence of Type in a line
\* that holds Type is replaced by Foo, the one inside a longer identifier
\* too (TypeScript comes out as FooScript) and the one that stands alone
\* (Type comes out as Foo), and its words come out each followed by one
\* space; a line without Type comes out as it went in.
WordBoundaryAmendedC4 ==
    (sPc = "done" /\ typeSet = TypeFoo) =>
        l = IF Occurrences(sLine, <<"T","y","p","e">>) = {} THEN sLine ELSE Rewritten(FooEverywhere)

\* the line with both cases has been rewritten
WordBoundaryWitnessC4 ==
    /\ sPc = "done"
    /\ typeSet = TypeFoo
    /\ sLine = <<"f","u","n","c"," ","f","(","a"," ","T","y","p","e","S","c","r","i","p","t",","," ","b"," ","T","y","p","e",")"," ","{">>
    /\ l = <<"f","u","n","c"," ","f","(","a"," ","F","o","o","S","c","r","i","p","t",","," ","b"," ","F","o","o",")"," ","{"," ">>

OwnNeighboursC7 ==
    [][ReplaceStep =>
          LET p == CHOOSE q \in Occurrences(word, t) : \A r \in Occurrences(word, t) : q <= r
              concrete == IF IsLabelled(typeSet[t])
                          THEN SubSeq(typeSet[t], Len(WordForm(typeSet[t])) + 2, Len(typeSet[t]))
                          ELSE typeSet[t]
          IN  IF HasWordNeighbour(word, p, t)
              THEN SameWord(Inserted(word, word', t), WordForm(typeSet[t]))
              ELSE Inserted(word, word', t) = concrete]_vars

\* C9: the line that comes out is the same in whatever order the range loop
\* meets the keys of the type set.
OrderIndependentC9 ==
    sPc = "done" => \A order \in Orders(typeSet) : l = SubstAll(sLine, typeSet, order)

\* C10: the loop over a word ends: it rewrites the word at most once for
\* each character of the word it was given, and then the word joins newLine.
WordLoopEndsC10 ==
    sPc = "word" => nRepl <= Len(words[wi])

\* once a spec that holds its own placeholder has been put in, the loop's
\* search finds the placeholder again, turn after turn
SelfReferenceFound ==
    (sPc = "word" /\ nRepl > 0 /\ Occurrences(typeSet[t], t) # {}) =>
        FindNext(word, i, t) > -1

-----------------------------------------------------------------------------
(* What the properties of Generics are stated with: the template is read
   line by line, and the output by its lines and by where a text occurs. *)

\* the names of the placeholder types the template declares, in their order
Declared == GenericTypeSpecs(template)

\* the declared names that type set k of the request leaves unbound, by
\* their place in the order of declaration
Unbound(names, k) == {n \in 1..Len(names) : names[n] \notin DOMAIN typeSets[k]}

\* the type sets of the request that leave a declared name unbound
Incomplete(names) == {k \in 1..Len(typeSets) : Unbound(names, k) # {}}

Least(S) == CHOOSE k \in S : \A m \in S : k <= m

\* a list without its repeats, each entry where it first stood
RECURSIVE Dedup(_)
Dedup(x) ==
    IF x = <<>> THEN <<>>
    ELSE LET d == Dedup(SubSeq(x, 1, Len(x) - 1))
         IN  IF \E k \in 1..Len(d) : d[k] = x[Len(x)] THEN d ELSE Append(d, x[Len(x)])

\* the import path a line of the template names, quotes and all
Quoted(ln) ==
    LET q == Occurrences(ln, <<"\"">>)
    IN  SubSeq(ln, Least(q) + 1, (CHOOSE k \in q : \A m \in q : k >= m) + 1)

\* the import paths of the template, each once, in the order they are met
TemplateImports ==
    LET named == SelectSeq(template, LAMBDA ln : Occurrences(ln, <<"\"">>) # {})
    IN  Dedup([k \in 1..Len(named) |-> Quoted(named[k])])

\* the lines between the first "import (" line of a text and the ")" line
\* that follows it, the blank ones left out
BlockEntries(lines) ==
    LET opens == {k \in 1..Len(lines) : lines[k] = <<"i","m","p","o","r","t"," ","(">>}
        b == Least(opens)
        closes == {k \in (b + 1)..Len(lines) : lines[k] = <<")">>}
    IN  IF opens = {} \/ closes = {} THEN <<>>
        ELSE SelectSeq(SubSeq(lines, b + 1, Least(closes) - 1), LAMBDA ln : ln # <<>>)

\* generateSpecific has read the whole template and is about to return buf
EndOfScan == gPc = "scan" /\ lineNo > Len(template)

\* the line refers to generic.Type or generic.Number
IsGenericLine(ln) ==
    Occurrences(ln, <<"g","e","n","e","r","i","c",".","T","y","p","e">>) # {} \/ Occurrences(ln, <<"g","e","n","e","r","i","c",".","N","u","m","b","e","r">>) # {}

\* the interface blocks of the template from line number from on, one after
\* the other: each from an opening line to the next closing line
RECURSIVE InterfaceBlocks(_)
InterfaceBlocks(from) ==
    LET opens == {k \in from..Len(template) : reInterfaceBegin(template[k])}
        b == Least(opens)
        closes == {k \in (b + 1)..Len(template) : reInterfaceEnd(template[k])}
    IN  IF opens = {} \/ closes = {} THEN {}
        ELSE {<<b, Least(closes)>>} \cup InterfaceBlocks(Least(closes) + 1)

IsGenericBlock(blk) == \E k \in blk[1]..blk[2] : IsGenericLine(template[k])

\* the line numbers of the template that lie in no generic interface block
OutsideGenericBlocks ==
    {k \in 1..Len(template) :
        \A blk \in InterfaceBlocks(1) : IsGenericBlock(blk) => (k < blk[1] \/ k > blk[2])}

-----------------------------------------------------------------------------
(* Generics *)

\* C1: when a type set of the request leaves a declared placeholder unbound,
\* Generics never gets to assemble its output: it returns, with no output
\* bytes, the error that names the first unbound placeholder (in the order
\* of declaration) of the first such type set, whatever the type sets before
\* it have put into totalOutput; and it returns that error in no other case.
MissingBindingC1 ==
    /\ gPc # "done" => output = <<>>
    /\ gPc # "error" => err = NoErr
    /\ gPc = "done" => Incomplete(Declared) = {}
    /\ gPc = "error" =>
           LET names == Declared
               bad == Incomplete(names)
           IN  /\ bad # {}
               /\ gIdx = Least(bad)
               /\ err = [kind |-> "errMissingSpecificType",
                         GenericType |-> names[Least(Unbound(names, gIdx))]]
               /\ output = <<>>
               /\ cleanOutput = <<>>

\* the second type set binds neither of two declared placeholders, the first
\* one has been substituted, and the error names the one declared first
MissingBindingWitnessC1 ==
    /\ gPc = "error"
    /\ gIdx = 2
    /\ totalOutput # <<>>
    /\ Len(Declared) = 2
    /\ Declared[1] # Declared[2]
    /\ DOMAIN typeSets[2] = {}
    /\ err.GenericType = Declared[1]
    /\ output = <<>>

\* C2: whatever the number of type sets, the text that Generics assembles
\* holds one package clause and one import block, the package line it keeps
\* is the template's, and no import line is left among the body's lines.
OnePackageOneImportBlockC2 ==
    gPc = "done" =>
        /\ Cardinality(Occurrences(cleanOutput, <<"p","a","c","k","a","g","e"," ">>)) = 1
        /\ Cardinality(Occurrences(cleanOutput, <<"i","m","p","o","r","t"," ","(">>)) = 1
        /\ packageLine = PackageClause \o <<"\n">>
        /\ \A k \in 1..Len(outputLines) : Occurrences(outputLines[k], <<"i","m","p","o","r","t">>) = {}

\* C3: the entries of the import block that Generics emits are the import
\* paths of the template, each once, in the order they are first met, the
\* path of a single-line import and the same path in a block being one entry.
ImportUnionC3 ==
    gPc = "done" => BlockEntries(ScanLines(cleanOutput)) = TemplateImports

\* two type sets, and a template that names "b" in a single-line import and
\* again in a block: the block that comes out has "b" once, then "a"
ImportUnionWitnessC3 ==
    /\ gPc = "done"
    /\ Len(typeSets) = 2
    /\ \E k \in 1..Len(template) : template[k] = <<"i","m","p","o","r","t"," ","\"","b","\"">>
    /\ \E k \in 1..Len(template) : template[k] = <<"\t","\"","b","\"">>
    /\ BlockEntries(ScanLines(cleanOutput)) = <<<<"\"","b","\"">>, <<"\"","a","\"">>>>

\* C6: of an interface block, from its opening line to the next closing line,
\* nothing is written when a line of it refers to generic.Type or
\* generic.Number; otherwise its lines are written as they are, each on a
\* line of its own, in their order, and once.
InterfacePruningC6 ==
    EndOfScan =>
        \A blk \in InterfaceBlocks(1) :
            IF IsGenericBlock(blk)
            THEN \A k \in blk[1]..blk[2] :
                     (\A j \in OutsideGenericBlocks : template[j] # template[k])
                         => Occurrences(buf, template[k]) = {}
            ELSE /\ \E j \in 1..Len(ScanLines(buf)) :
                        /\ j + blk[2] - blk[1] <= Len(ScanLines(buf))
                        /\ SubSeq(ScanLines(buf), j, j + blk[2] - blk[1])
                               = SubSeq(template, blk[1], blk[2])
                 /\ Cardinality(Occurrences(buf, template[blk[1]]))
                        = Cardinality({b2 \in InterfaceBlocks(1) :
                                          /\ ~IsGenericBlock(b2)
                                          /\ template[b2[1]] = template[blk[1]]})

\* C8: a "//" comment line is dropped exactly when the line after it refers
\* to generic.Type or generic.Number; every other comment line, the one
\* before another comment and the one that ends the template too, is
\* written once, on a line of its own.
CommentDeferralC8 ==
    EndOfScan =>
        \A k \in 1..Len(template) :
            HasPrefix(template[k], <<"/","/">>) =>
                Cardinality(Occurrences(buf, template[k] \o <<"\n">>))
                    = Cardinality({j \in 1..Len(template) :
                                      /\ template[j] = template[k]
                                      /\ ~(j < Len(template) /\ IsGenericLine(template[j + 1]))})

=============================================================================
